---------------------------- MODULE Spec2Model ----------------------------
(***************************************************************************)
(* redmine-issue-summary: a run of the bot (src/main.go, lines 343-582).   *)
(*                                                                         *)
(* Strings are sequences of characters (one-character TLA+ strings, plus a *)
(* few atomic tokens standing for non-ASCII characters and words), so that *)
(* concatenation, replacement, formatting and parsing are computed.        *)
(* A time.Time is an instant: whole hours since 0001-01-01T00:00:00Z, the  *)
(* zero value of time.Time being 0.                                        *)
(***************************************************************************)
EXTENDS Integers, Sequences, FiniteSets, TLC

(***************************************************************************)
(* Bounds of the model.                                                    *)
(***************************************************************************)
\* number of consecutive calendar days on which a run may start
NumRunDays == 7
\* due dates range from DaysBefore days before the first run day ...
DaysBefore == 2
\* ... to DaysAfter days after it
DaysAfter == 14
\* largest number of issues the tracker holds
MaxIssues == 3
\* call depth of isSameUser at which the goroutine stack is exhausted
MaxDepth == 3
\* largest number of users the chat service lists
MaxSlackUsers == 2

(***************************************************************************)
(* Program constants.                                                      *)
(***************************************************************************)
maxLimit == 100
\* time.Friday - the literal 5 in the computation of weekend
Friday == 5
HoursPerDay == 24

(***************************************************************************)
(* Characters and strings.                                                 *)
(***************************************************************************)
\* U+3000, the full-width space
IdeographicSpace == "U+3000"
\* the words of the placeholders
Kijitsu == "KIJITSU"
Tantou == "TANTOU"
Misettei == "MISETTEI"

DigitChars == <<"0", "1", "2", "3", "4", "5", "6", "7", "8", "9">>

IsDigit(c) == \E n \in 1..10 : DigitChars[n] = c

DigitValue(c) == (CHOOSE n \in 1..10 : DigitChars[n] = c) - 1

\* strings.Replace(s, old, new, -1) for a one-character old
ReplaceAll(s, old, new) == [i \in 1..Len(s) |-> IF s[i] = old THEN new ELSE s[i]]

\* %04d / %02d of a non-negative number
Pad4(n) ==
    << DigitChars[((n \div 1000) % 10) + 1], DigitChars[((n \div 100) % 10) + 1],
       DigitChars[((n \div 10) % 10) + 1], DigitChars[(n % 10) + 1] >>

Pad2(n) == << DigitChars[((n \div 10) % 10) + 1], DigitChars[(n % 10) + 1] >>

(***************************************************************************)
(* The calendar of package time (proleptic Gregorian), days counted from   *)
(* 0001-01-01 = 0.                                                         *)
(***************************************************************************)
IsLeap(y) == (y % 4 = 0) /\ ((y % 100 # 0) \/ (y % 400 = 0))

DaysBeforeMonthTable == <<0, 31, 59, 90, 120, 151, 181, 212, 243, 273, 304, 334, 365>>

\* days of the year before the first of month m (1..13)
DaysBeforeMonth(y, m) ==
    DaysBeforeMonthTable[m] + (IF IsLeap(y) /\ m > 2 THEN 1 ELSE 0)

DaysIn(y, m) == DaysBeforeMonth(y, m + 1) - DaysBeforeMonth(y, m)

DaysBeforeYear(y) ==
    365 * (y - 1) + ((y - 1) \div 4) - ((y - 1) \div 100) + ((y - 1) \div 400)

\* the day number of the civil date y-m-d
CivilToDays(y, m, d) == DaysBeforeYear(y) + DaysBeforeMonth(y, m) + (d - 1)

\* the civil date of a day number (time.absDate)
DaysToCivil(day) ==
    LET n400 == day \div 146097
        r1   == day % 146097
        c100 == r1 \div 36524
        n100 == IF c100 = 4 THEN 3 ELSE c100
        r2   == r1 - 36524 * n100
        n4   == r2 \div 1461
        r3   == r2 % 1461
        c1   == r3 \div 365
        n1   == IF c1 = 4 THEN 3 ELSE c1
        yday == r3 - 365 * n1
        y    == 400 * n400 + 100 * n100 + 4 * n4 + n1 + 1
        m    == CHOOSE k \in 1..12 :
                    DaysBeforeMonth(y, k) <= yday /\ yday < DaysBeforeMonth(y, k + 1)
    IN  [y |-> y, m |-> m, d |-> yday - DaysBeforeMonth(y, m) + 1]

\* time.Weekday of a day number: Sunday = 0 ... Saturday = 6 (0001-01-01 is a Monday)
Weekday(day) == (day + 1) % 7

\* t.Format("2006-01-02") of an instant whose location is UTC
Format(t) ==
    LET c == DaysToCivil(t \div HoursPerDay)
    IN  Pad4(c.y) \o <<"-">> \o Pad2(c.m) \o <<"-">> \o Pad2(c.d)

\* whether time.Parse("2006-01-02", s) returns a nil error
ParseOK(s) ==
    /\ Len(s) = 10
    /\ \A i \in {1, 2, 3, 4, 6, 7, 9, 10} : IsDigit(s[i])
    /\ s[5] = "-"
    /\ s[8] = "-"
    /\ LET y == 1000 * DigitValue(s[1]) + 100 * DigitValue(s[2])
                + 10 * DigitValue(s[3]) + DigitValue(s[4])
           m == 10 * DigitValue(s[6]) + DigitValue(s[7])
           d == 10 * DigitValue(s[9]) + DigitValue(s[10])
       IN  /\ m \in 1..12
           /\ d >= 1
           /\ d <= DaysIn(y, m)

\* the Time time.Parse("2006-01-02", s) returns: midnight UTC of the date, and
\* the zero Time with an error
Parse(s) ==
    IF ParseOK(s)
    THEN LET y == 1000 * DigitValue(s[1]) + 100 * DigitValue(s[2])
                  + 10 * DigitValue(s[3]) + DigitValue(s[4])
             m == 10 * DigitValue(s[6]) + DigitValue(s[7])
             d == 10 * DigitValue(s[9]) + DigitValue(s[10])
         IN  CivilToDays(y, m, d) * HoursPerDay
    ELSE 0

\* time.Date(y, m, d, 0, 0, 0, 0, time.Local) where local time is UTC + off hours
LocalMidnight(date, off) == CivilToDays(date.y, date.m, date.d) * HoursPerDay - off


(***************************************************************************)
(* Values of the tracker, of the chat service and of usermapping.json that *)
(* the runs are checked on.                                                *)
(***************************************************************************)
Buckets == {"expired", "near"}

\* a nil *redmine.IdName
NilIdName == [isNil |-> TRUE, Id |-> 0, Name |-> <<>>]

IdName(id, name) == [isNil |-> FALSE, Id |-> id, Name |-> name]

TaroYamada == <<"T", "a", "r", "o", " ", "Y", "a", "m", "a", "d", "a">>
YamadaFwTaro == <<"Y", "a", "m", "a", "d", "a", IdeographicSpace, "T", "a", "r", "o">>
yamada_t == <<"y", "a", "m", "a", "d", "a", "_", "t">>

\* redmine.User records, by id
TrackerTaro == [Login |-> <<"t", "y">>, Firstname |-> <<"T", "a", "r", "o">>,
                Lastname |-> <<"Y", "a", "m", "a", "d", "a">>]
TrackerJD == [Login |-> <<"j", "d">>, Firstname |-> <<"J">>, Lastname |-> <<"D">>]
TrackerHandle == [Login |-> <<"x">>, Firstname |-> yamada_t, Lastname |-> <<>>]

TrackerUserChoices == {TrackerTaro, TrackerJD, TrackerHandle}

\* objects.User records of the chat service
SlackLogin == [ID |-> <<"U", "1">>, Name |-> <<"t", "y">>, RealName |-> <<"X", " ", "Y">>]
SlackMapped == [ID |-> <<"U", "2">>, Name |-> yamada_t, RealName |-> TaroYamada]
SlackFullWidth == [ID |-> <<"U", "3">>, Name |-> <<"z">>, RealName |-> YamadaFwTaro]
SlackA == [ID |-> <<"U", "4">>, Name |-> <<"q">>, RealName |-> <<"A">>]

SlackUserChoices == {SlackLogin, SlackMapped, SlackFullWidth, SlackA}

\* the lists of at most n chat users
SlackLists(n) == UNION {[1..k -> SlackUserChoices] : k \in 0..n}

\* usermapping.json as a set of <<key, value>> pairs with distinct keys
MapEmpty == {}
MapExample == {<<TaroYamada, yamada_t>>}
MapSelf == {<<<<"A">>, <<"A">>>>}
MapChain == {<<<<"A">>, <<"B">>>>, <<<<"B">>, <<"J", "D">>>>}
MapCycle == {<<<<"A">>, <<"B">>>>, <<<<"B">>, <<"A">>>>}

UserMapChoices == {MapEmpty, MapExample, MapSelf, MapChain, MapCycle}

\* _, ok := m[k]
HasKey(m, k) == \E p \in m : p[1] = k

\* m[k] of a present key
MapGet(m, k) == (CHOOSE p \in m : p[1] = k)[2]

\* the local dates on which a run starts: 2026-11-01 (a Sunday) and the days after
FirstRunDay == CivilToDays(2026, 11, 1)

RunDates == {DaysToCivil(FirstRunDay + k) : k \in 0..(NumRunDays - 1)}

\* hours by which local time is ahead of UTC
TzOffsets == {-5, 0, 9}

\* due_date strings of the tracker: dates around the run, the sentinel, and
\* strings time.Parse rejects
ValidDueStrings ==
    {Format((FirstRunDay + k) * HoursPerDay) : k \in (0 - DaysBefore)..DaysAfter}

BadDueStrings ==
    { <<>>,
      <<"2", "0", "2", "6", "-", "0", "2", "-", "3", "0">>,
      <<"2", "0", "2", "6", "/", "1", "1", "/", "0", "3">>,
      <<"2", "0", "2", "6", "-", "1", "1", "-", "3">>,
      <<"2", "0", "2", "6", "-", "1", "3", "-", "0", "1">> }

SentinelDueString == <<"0", "0", "0", "1", "-", "0", "1", "-", "0", "1">>

\* a redmine.Issue
RawIssue(id, due, assignee) ==
    [Id |-> id, Subject |-> <<"s">>, DueDate |-> due, AssignedTo |-> assignee]

(***************************************************************************)
(* State.                                                                  *)
(***************************************************************************)
VARIABLES
    tz,            \* time.Local: hours ahead of UTC
    nowDate,       \* now.Year(), now.Month(), now.Day()
    today,         \* package variable today
    weekend,       \* package variable weekend
    userMap,       \* package variable userMap
    remoteIssues,  \* the tracker's issues, in the order the API lists them
    trackerUser,   \* the tracker's user record of the assignee
    slackUsers,    \* the chat service's user list
    pc,            \* where the main goroutine (exec, postToSlack, getUser) is
    err,           \* what exec returns
    offset,        \* cli.Offset
    ris,           \* getIssues: ris
    iss,           \* exec: iss
    ch,            \* the channels expired and near: buffer and closed flag
    prod,          \* the two collect goroutines: state and loop index
    sent,          \* history: the IDs sent on each channel, in order
    bucket,        \* postToSlack: which channel is ranged over
    out,           \* postToSlack: out
    buf,           \* postToSlack: buf
    count,         \* postToSlack: ec and nc
    cur,           \* postToSlack: is of the range loop
    redmineUser,   \* getUser: redmineUser
    slackUserList, \* getUser: slackUserList
    idx,           \* getUser: position of the range over slackUserList
    realName,      \* isSameUser: slackUser.RealName of the innermost call
    depth,         \* isSameUser: number of nested calls
    ret,           \* getUser: returned string
    posted,        \* the texts posted to the channel
    calls,         \* number of remote requests made, by kind
    failed         \* kinds of remote calls that failed

envVars == <<tz, nowDate, today, weekend, userMap, remoteIssues, trackerUser, slackUsers>>
fetchVars == <<offset, ris, iss>>
chanVars == <<ch, prod, sent>>
textVars == <<bucket, out, buf, count, cur>>
userVars == <<redmineUser, slackUserList, idx, realName, depth, ret>>
vars == <<envVars, fetchVars, chanVars, textVars, userVars, pc, err, posted, calls, failed>>

\* weekend = today.Add(time.Duration(5-today.Weekday()) * time.Hour * 24)
WeekendOf(date, t) ==
    t + (Friday - Weekday(CivilToDays(date.y, date.m, date.d))) * HoursPerDay

NoIssue == [ID |-> 0, Subject |-> <<>>, DueDate |-> 0, AssignedTo |-> NilIdName]
NoUser == [Login |-> <<>>, Firstname |-> <<>>, Lastname |-> <<>>]

\* the state when main is entered, for the given environment
InitWith(tzs, dates, maps, issueLists, trackerUsers, slackLists) ==
    /\ tz \in tzs
    /\ nowDate \in dates
    /\ today = LocalMidnight(nowDate, tz)
    /\ weekend = WeekendOf(nowDate, today)
    /\ userMap \in maps
    /\ remoteIssues \in issueLists
    /\ trackerUser \in trackerUsers
    /\ slackUsers \in slackLists
    /\ pc = "getIssues"
    /\ err = "pending"
    /\ offset = 0
    /\ ris = <<>>
    /\ iss = <<>>
    /\ ch = [b \in Buckets |-> [buf |-> <<>>, closed |-> FALSE]]
    /\ prod = [b \in Buckets |-> [pc |-> "idle", i |-> 1]]
    /\ sent = [b \in Buckets |-> <<>>]
    /\ bucket = "expired"
    /\ out = <<>>
    /\ buf = <<>>
    /\ count = [b \in Buckets |-> 0]
    /\ cur = NoIssue
    /\ redmineUser = NoUser
    /\ slackUserList = <<>>
    /\ idx = 0
    /\ realName = <<>>
    /\ depth = 0
    /\ ret = <<>>
    /\ posted = <<>>
    /\ calls = [k \in {"issues", "auth", "user", "list", "post"} |-> 0]
    /\ failed = {}

(***************************************************************************)
(* Pure functions of the program.                                          *)
(***************************************************************************)
\* convertIssues: the error of time.Parse is dropped
convertIssues(rs) ==
    [i \in 1..Len(rs) |->
        [ID |-> rs[i].Id, Subject |-> rs[i].Subject,
         DueDate |-> Parse(rs[i].DueDate), AssignedTo |-> rs[i].AssignedTo]]

\* isExpired as it would be if an unset due date were never overdue
isExpiredDated(is) == is.DueDate # 0 /\ today > is.DueDate

\* today.After(is.DueDate)
isExpired(is) == today > is.DueDate

\* !isExpired(is) && weekend.After(is.DueDate)
isNear(is) == (~isExpired(is)) /\ weekend > is.DueDate

\* the filter collect is started with for a channel
Filter(b, is) == IF b = "expired" THEN isExpired(is) ELSE isNear(is)

formatTime(t) ==
    LET s == Format(t) IN IF s = SentinelDueString THEN <<>> ELSE s

unassignable(target, label) ==
    IF target = <<>> THEN <<label, Misettei>> ELSE target

\* "<@" + slackUser.ID + ">"
Mention(su) == <<"<", "@">> \o su.ID \o <<">">>

\* the comparisons as they would be if the mapped value were also compared
\* with the short name of the chat user
DirectMatchHandle(ru, name, rn) ==
    \/ ru.Login = name
    \/ rn = name
    \/ ReplaceAll(rn, IdeographicSpace, " ") \in
          { ru.Lastname \o ru.Firstname,
            ru.Lastname \o <<" ">> \o ru.Firstname,
            ru.Firstname \o ru.Lastname,
            ru.Firstname \o <<" ">> \o ru.Lastname }

\* the comparisons of one call of isSameUser, rn being slackUser.RealName
DirectMatch(ru, name, rn) ==
    \/ ru.Login = name
    \/ ReplaceAll(rn, IdeographicSpace, " ") \in
          { ru.Lastname \o ru.Firstname,
            ru.Lastname \o <<" ">> \o ru.Firstname,
            ru.Firstname \o ru.Lastname,
            ru.Firstname \o <<" ">> \o ru.Lastname }

\* one line of the text: the summary line of a section, or the line of a ticket
CountLine(b, n) ==
    [kind |-> "count", bucket |-> b, n |-> n, due |-> <<>>, id |-> 0,
     subject |-> <<>>, user |-> <<>>]

TicketLine(b, is, user) ==
    [kind |-> "ticket", bucket |-> b, n |-> 0,
     due |-> unassignable(formatTime(is.DueDate), Kijitsu), id |-> is.ID,
     subject |-> is.Subject, user |-> unassignable(user, Tantou)]

\* one page of cli.Issues() at the client's offset and limit
Page(off, limit) ==
    SubSeq(remoteIssues, off + 1,
           IF off + limit < Len(remoteIssues) THEN off + limit ELSE Len(remoteIssues))

\* the process runs: exec has not returned and the runtime has not aborted
Running == pc \notin {"done", "crashed"}

Called(k) == calls' = [calls EXCEPT ![k] = @ + 1]

(***************************************************************************)
(* exec and getIssues.                                                     *)
(***************************************************************************)
\* one iteration of the loop of getIssues, and at the empty page convertIssues
GetIssuesPage ==
    /\ pc = "getIssues"
    /\ Called("issues")
    /\ \E ok \in BOOLEAN :
          IF ~ok
          THEN /\ pc' = "done"
               /\ err' = "issues"
               /\ failed' = failed \cup {"issues"}
               /\ UNCHANGED fetchVars
          ELSE /\ IF Len(Page(offset, maxLimit)) = 0
                  THEN /\ iss' = convertIssues(ris)
                       /\ pc' = "spawn"
                       /\ UNCHANGED <<offset, ris>>
                  ELSE /\ ris' = ris \o Page(offset, maxLimit)
                       /\ offset' = offset + maxLimit
                       /\ UNCHANGED <<pc, iss>>
               /\ UNCHANGED <<err, failed>>
    /\ UNCHANGED <<envVars, chanVars, textVars, userVars, posted>>

\* exec: the two channels are made and the two collect goroutines started
Spawn ==
    /\ pc = "spawn"
    /\ prod' = [b \in Buckets |-> [pc |-> "loop", i |-> 1]]
    /\ pc' = "authTest"
    /\ UNCHANGED <<envVars, fetchVars, ch, sent, textVars, userVars, err, posted, calls, failed>>

(***************************************************************************)
(* collect, one goroutine for each channel.                                *)
(***************************************************************************)
\* an issue the filter accepts is sent; the send blocks while the buffer is full
CollectSend(b) ==
    /\ Running
    /\ prod[b].pc = "loop"
    /\ prod[b].i <= Len(iss)
    /\ Filter(b, iss[prod[b].i])
    /\ Len(ch[b].buf) < 1
    /\ ch' = [ch EXCEPT ![b].buf = Append(@, iss[prod[b].i])]
    /\ prod' = [prod EXCEPT ![b].i = @ + 1]
    /\ sent' = [sent EXCEPT ![b] = Append(@, iss[prod[b].i].ID)]
    /\ UNCHANGED <<envVars, fetchVars, textVars, userVars, pc, err, posted, calls, failed>>

\* an issue the filter rejects is passed over
CollectSkip(b) ==
    /\ Running
    /\ prod[b].pc = "loop"
    /\ prod[b].i <= Len(iss)
    /\ ~Filter(b, iss[prod[b].i])
    /\ prod' = [prod EXCEPT ![b].i = @ + 1]
    /\ UNCHANGED <<envVars, fetchVars, ch, sent, textVars, userVars, pc, err, posted, calls, failed>>

\* after the last issue the channel is closed
CollectClose(b) ==
    /\ Running
    /\ prod[b].pc = "loop"
    /\ prod[b].i > Len(iss)
    /\ ch' = [ch EXCEPT ![b].closed = TRUE]
    /\ prod' = [prod EXCEPT ![b].pc = "done"]
    /\ UNCHANGED <<sent, envVars, fetchVars, textVars, userVars, pc, err, posted, calls, failed>>

(***************************************************************************)
(* postToSlack.                                                            *)
(***************************************************************************)
AuthTest ==
    /\ pc = "authTest"
    /\ Called("auth")
    /\ \E ok \in BOOLEAN :
          IF ok
          THEN /\ pc' = "range"
               /\ UNCHANGED <<err, failed>>
          ELSE /\ pc' = "done"
               /\ err' = "auth"
               /\ failed' = failed \cup {"auth"}
    /\ UNCHANGED <<envVars, fetchVars, chanVars, textVars, userVars, posted>>

\* the range loop receives an issue and counts it
Receive ==
    /\ pc = "range"
    /\ Len(ch[bucket].buf) > 0
    /\ cur' = Head(ch[bucket].buf)
    /\ ch' = [ch EXCEPT ![bucket].buf = Tail(@)]
    /\ count' = [count EXCEPT ![bucket] = @ + 1]
    /\ pc' = "getUser"
    /\ UNCHANGED <<envVars, fetchVars, prod, sent, bucket, out, buf, userVars, err, posted, calls, failed>>

\* postToSlack as it would be if buf kept its content after it is written out
EndRangeKeepBuf ==
    /\ pc = "range"
    /\ Len(ch[bucket].buf) = 0
    /\ ch[bucket].closed
    /\ out' = out \o <<CountLine(bucket, count[bucket])>> \o buf
    /\ buf' = buf
    /\ IF bucket = "expired"
       THEN bucket' = "near" /\ pc' = "range"
       ELSE bucket' = bucket /\ pc' = "post"
    /\ UNCHANGED <<envVars, fetchVars, chanVars, count, cur, userVars, err, posted, calls, failed>>

\* the channel is closed and drained: the summary line and the ticket lines of
\* the section are written to out, and buf is emptied
EndRange ==
    /\ pc = "range"
    /\ Len(ch[bucket].buf) = 0
    /\ ch[bucket].closed
    /\ out' = out \o <<CountLine(bucket, count[bucket])>> \o buf
    /\ buf' = <<>>
    /\ IF bucket = "expired"
       THEN bucket' = "near" /\ pc' = "range"
       ELSE bucket' = bucket /\ pc' = "post"
    /\ UNCHANGED <<envVars, fetchVars, chanVars, count, cur, userVars, err, posted, calls, failed>>

\* the line of the received issue is written to buf
Render ==
    /\ pc = "render"
    /\ buf' = Append(buf, TicketLine(bucket, cur, ret))
    /\ pc' = "range"
    /\ UNCHANGED <<envVars, fetchVars, chanVars, bucket, out, count, cur, userVars, err, posted, calls, failed>>

PostMessage ==
    /\ pc = "post"
    /\ Called("post")
    /\ pc' = "done"
    /\ \E ok \in BOOLEAN :
          IF ok
          THEN /\ posted' = Append(posted, out)
               /\ err' = "nil"
               /\ UNCHANGED failed
          ELSE /\ err' = "post"
               /\ failed' = failed \cup {"post"}
               /\ UNCHANGED posted
    /\ UNCHANGED <<envVars, fetchVars, chanVars, textVars, userVars>>

(***************************************************************************)
(* getUser and isSameUser.                                                 *)
(***************************************************************************)
\* getUser with a nil idname
GetUserNil ==
    /\ pc = "getUser"
    /\ cur.AssignedTo.isNil
    /\ ret' = <<>>
    /\ pc' = "render"
    /\ UNCHANGED <<envVars, fetchVars, chanVars, textVars, redmineUser, slackUserList,
                   idx, realName, depth, err, posted, calls, failed>>

\* getUser as it would be if the tracker user were fetched once and kept
GetUserLookupCached ==
    /\ pc = "getUser"
    /\ ~cur.AssignedTo.isNil
    /\ IF redmineUser # NoUser
       THEN /\ pc' = "listUsers"
            /\ UNCHANGED <<redmineUser, ret, failed, calls>>
       ELSE /\ Called("user")
            /\ \E ok \in BOOLEAN :
                  IF ok
                  THEN /\ redmineUser' = trackerUser
                       /\ pc' = "listUsers"
                       /\ UNCHANGED <<ret, failed>>
                  ELSE /\ ret' = cur.AssignedTo.Name
                       /\ pc' = "render"
                       /\ failed' = failed \cup {"user"}
                       /\ UNCHANGED redmineUser
    /\ UNCHANGED <<envVars, fetchVars, chanVars, textVars, slackUserList, idx, realName,
                   depth, err, posted>>

\* redmineClient.User(idname.Id)
GetUserLookup ==
    /\ pc = "getUser"
    /\ ~cur.AssignedTo.isNil
    /\ Called("user")
    /\ \E ok \in BOOLEAN :
          IF ok
          THEN /\ redmineUser' = trackerUser
               /\ pc' = "listUsers"
               /\ UNCHANGED <<ret, failed>>
          ELSE /\ ret' = cur.AssignedTo.Name
               /\ pc' = "render"
               /\ failed' = failed \cup {"user"}
               /\ UNCHANGED redmineUser
    /\ UNCHANGED <<envVars, fetchVars, chanVars, textVars, slackUserList, idx, realName,
                   depth, err, posted>>

\* getUser as it would be if a failure of the user list ended the run
GetUserListAbort ==
    /\ pc = "listUsers"
    /\ Called("list")
    /\ \E ok \in BOOLEAN :
          IF ok
          THEN /\ slackUserList' = slackUsers
               /\ idx' = 1
               /\ pc' = "match"
               /\ UNCHANGED <<ret, failed, err>>
          ELSE /\ err' = "list"
               /\ pc' = "done"
               /\ failed' = failed \cup {"list"}
               /\ UNCHANGED <<slackUserList, idx, ret>>
    /\ UNCHANGED <<envVars, fetchVars, chanVars, textVars, redmineUser, realName, depth,
                   posted>>

\* slackRESTClient.Users().List()
GetUserList ==
    /\ pc = "listUsers"
    /\ Called("list")
    /\ \E ok \in BOOLEAN :
          IF ok
          THEN /\ slackUserList' = slackUsers
               /\ idx' = 1
               /\ pc' = "match"
               /\ UNCHANGED <<ret, failed>>
          ELSE /\ ret' = cur.AssignedTo.Name
               /\ pc' = "render"
               /\ failed' = failed \cup {"list"}
               /\ UNCHANGED <<slackUserList, idx>>
    /\ UNCHANGED <<envVars, fetchVars, chanVars, textVars, redmineUser, realName, depth,
                   err, posted>>

\* getUser as it would be if it returned the empty string when nobody matches
GetUserNextEmpty ==
    /\ pc = "match"
    /\ IF idx > Len(slackUserList)
       THEN /\ ret' = <<>>
            /\ pc' = "render"
            /\ UNCHANGED <<realName, depth>>
       ELSE /\ realName' = slackUserList[idx].RealName
            /\ depth' = 1
            /\ pc' = "isSameUser"
            /\ UNCHANGED ret
    /\ UNCHANGED <<envVars, fetchVars, chanVars, textVars, redmineUser, slackUserList, idx,
                   err, posted, calls, failed>>

\* the range over slackUserList: isSameUser is called for the next chat user, or
\* after the last the name of idname is returned
GetUserNext ==
    /\ pc = "match"
    /\ IF idx > Len(slackUserList)
       THEN /\ ret' = cur.AssignedTo.Name
            /\ pc' = "render"
            /\ UNCHANGED <<realName, depth>>
       ELSE /\ realName' = slackUserList[idx].RealName
            /\ depth' = 1
            /\ pc' = "isSameUser"
            /\ UNCHANGED ret
    /\ UNCHANGED <<envVars, fetchVars, chanVars, textVars, redmineUser, slackUserList, idx,
                   err, posted, calls, failed>>

\* the body of the innermost call of isSameUser: it returns true on a match,
\* calls itself with the mapped name when userMap has the name, and returns
\* false otherwise; a call the stack has no room for aborts the process
IsSameUserCall ==
    /\ pc = "isSameUser"
    /\ IF DirectMatch(redmineUser, slackUserList[idx].Name, realName)
       THEN /\ ret' = Mention(slackUserList[idx])
            /\ pc' = "render"
            /\ UNCHANGED <<idx, realName, depth>>
       ELSE IF HasKey(userMap, realName)
       THEN IF depth < MaxDepth
            THEN /\ realName' = MapGet(userMap, realName)
                 /\ depth' = depth + 1
                 /\ UNCHANGED <<pc, idx, ret>>
            ELSE /\ pc' = "crashed"
                 /\ UNCHANGED <<idx, realName, depth, ret>>
       ELSE /\ idx' = idx + 1
            /\ pc' = "match"
            /\ UNCHANGED <<realName, depth, ret>>
    /\ UNCHANGED <<envVars, fetchVars, chanVars, textVars, redmineUser, slackUserList,
                   err, posted, calls, failed>>

Next ==
    \/ GetIssuesPage
    \/ Spawn
    \/ \E b \in Buckets : CollectSend(b)
    \/ \E b \in Buckets : CollectSkip(b)
    \/ \E b \in Buckets : CollectClose(b)
    \/ AuthTest
    \/ Receive
    \/ EndRange
    \/ Render
    \/ PostMessage
    \/ GetUserNil
    \/ GetUserLookup
    \/ GetUserList
    \/ GetUserNext
    \/ IsSameUserCall

(***************************************************************************)
(* Specifications: the same program in three families of environments.     *)
(***************************************************************************)
\* the assignee of an assigned issue
Assignee == IdName(7, <<"T", ".", "Y">>)

\* the lists of at most n issues whose due date and assignee are drawn from
\* kinds; the tracker numbers the issues 1, 2, ...
IssueLists(kinds, n) ==
    UNION { { [i \in 1..k |-> RawIssue(i, f[i][1], f[i][2])] : f \in [1..k -> kinds] }
            : k \in 0..n }

\* a Wednesday
MidweekDate == DaysToCivil(FirstRunDay + 3)

DueOn(k) == Format((FirstRunDay + k) * HoursPerDay)

\* every time zone, run day and due date string, one issue
InitDates ==
    InitWith(TzOffsets, RunDates, {MapExample},
             IssueLists((ValidDueStrings \cup BadDueStrings \cup {SentinelDueString})
                            \X {NilIdName, Assignee}, 1) \ {<<>>},
             {TrackerTaro}, {<<SlackA, SlackLogin>>})

\* every mapping table, tracker user and chat user list, one overdue issue
InitUsers ==
    InitWith({9}, {MidweekDate}, UserMapChoices,
             IssueLists({DueOn(1)} \X {NilIdName, Assignee}, 1) \ {<<>>},
             TrackerUserChoices, SlackLists(MaxSlackUsers))

\* the due date and assignee of the issues of a run: overdue, due soon, due
\* later and undated
RunIssueKinds ==
    { <<DueOn(1), Assignee>>, <<DueOn(1), NilIdName>>, <<DueOn(4), Assignee>>,
      <<DueOn(9), NilIdName>>, <<<<>>, NilIdName>> }

\* every list of such issues
InitRun ==
    InitWith({9}, {MidweekDate}, {MapExample, MapSelf},
             IssueLists(RunIssueKinds, MaxIssues),
             {TrackerTaro, TrackerJD}, {<<SlackA, SlackMapped>>})

Spec == InitRun /\ [][Next]_vars

SpecDates == InitDates /\ [][Next]_vars

SpecUsers == InitUsers /\ [][Next]_vars

(***************************************************************************)
(* Properties.                                                             *)
(***************************************************************************)
InSeq(x, q) == \E k \in 1..Len(q) : q[k] = x

\* both collect goroutines have gone through the whole list
AllSent == \A b \in Buckets : prod[b].pc = "done"

\* the calendar date (day number) a parseable due_date string denotes
DueDay(i) == Parse(remoteIssues[i].DueDate) \div HoursPerDay

\* the local calendar date of the run
TodayDay == CivilToDays(nowDate.y, nowDate.m, nowDate.d)

\* the local calendar date of weekend
BoundaryDay == (weekend + tz) \div HoursPerDay

\* C1: of the tickets whose due date parsed to a calendar date d, exactly those
\* with d before today are put in Expired, exactly those with today <= d and d
\* before the week boundary are put in DueSoon, and none is put in both.
C1_Classification ==
    AllSent =>
        \A i \in 1..Len(remoteIssues) :
            ParseOK(remoteIssues[i].DueDate) =>
                /\ InSeq(i, sent["expired"]) <=> (DueDay(i) < TodayDay)
                /\ InSeq(i, sent["near"]) <=>
                       (TodayDay <= DueDay(i) /\ DueDay(i) < BoundaryDay)
                /\ ~(InSeq(i, sent["expired"]) /\ InSeq(i, sent["near"]))

\* C4: weekend is midnight of a Friday that is not earlier than today, and
\* when today is a Friday or a Saturday it is a Friday after today.
C4_WeekBoundary ==
    /\ Weekday(BoundaryDay) = Friday
    /\ weekend = LocalMidnight(DaysToCivil(BoundaryDay), tz)
    /\ BoundaryDay >= TodayDay
    /\ (Weekday(TodayDay) >= Friday => BoundaryDay > TodayDay)

\* C2 as stated: a ticket whose due date is empty or cannot be parsed is sent
\* on neither the expired channel nor the near channel.
C2_Original ==
    \A b \in Buckets : \A k \in 1..Len(sent[b]) :
        ParseOK(remoteIssues[sent[b][k]].DueDate)

\* C2 as amended: a ticket whose due date is empty or cannot be parsed is never
\* sent on the near channel, it is sent on the expired channel by the time
\* collect has gone through the list, and its line, in the Expired section,
\* shows the placeholder for an unset due date, for every value of today.
C2_Amended ==
    /\ \A k \in 1..Len(sent["near"]) : ParseOK(remoteIssues[sent["near"][k]].DueDate)
    /\ prod["expired"].pc = "done" =>
          \A i \in 1..Len(remoteIssues) :
              ~ParseOK(remoteIssues[i].DueDate) => InSeq(i, sent["expired"])
    /\ \A k \in 1..Len(out \o buf) :
          LET line == (out \o buf)[k]
          IN  (line.kind = "ticket" /\ ~ParseOK(remoteIssues[line.id].DueDate)) =>
                  (line.bucket = "expired" /\ line.due = <<Kijitsu, Misettei>>)

C2_Witness ==
    /\ AllSent
    /\ \E i \in 1..Len(remoteIssues) :
          /\ ~ParseOK(remoteIssues[i].DueDate)
          /\ InSeq(i, sent["expired"])
          /\ ~InSeq(i, sent["near"])

\* C3: isSameUser terminates for every mapping table and makes at most one
\* substitution followed by one retry: there are never more than two nested
\* calls, and the stack is never exhausted.
C3_OneSubstitution == depth <= 2 /\ pc # "crashed"

\* the four concatenations of the last and first name of a tracker user
NameForms(ru) ==
    { ru.Lastname \o ru.Firstname, ru.Lastname \o <<" ">> \o ru.Firstname,
      ru.Firstname \o ru.Lastname, ru.Firstname \o <<" ">> \o ru.Lastname }

\* the case of C8: isSameUser runs on the example's mapping table and chat
\* user, for a tracker user without a direct match
C8_Case ==
    /\ pc = "isSameUser"
    /\ userMap = MapExample
    /\ slackUserList[idx] = SlackMapped
    /\ redmineUser.Login # SlackMapped.Name
    /\ TaroYamada \notin NameForms(redmineUser)

\* C8 as stated: in that case isSameUser returns true.
C8_Original == [][(C8_Case /\ pc' # "isSameUser") => pc' = "render"]_vars

\* C8 as amended: in that case isSameUser makes one substitution and one retry,
\* and returns true exactly when the mapped value "yamada_t" is one of the four
\* concatenations of the tracker user's last and first name.
C8_Amended ==
    [][(C8_Case /\ pc' # "isSameUser") =>
           /\ depth = 2
           /\ realName = yamada_t
           /\ pc' \in {"render", "match"}
           /\ (pc' = "render") <=> (yamada_t \in NameForms(redmineUser))
           /\ pc' = "render" => ret' = <<"<", "@", "U", "2", ">">>]_vars

\* isSameUser has returned false in the case of C8, after one substitution
C8_Witness ==
    /\ pc = "match"
    /\ idx > 1
    /\ userMap = MapExample
    /\ slackUserList[idx - 1] = SlackMapped
    /\ redmineUser = TrackerJD
    /\ depth = 2
    /\ realName = yamada_t

\* whether a chat user is the tracker user: a comparison succeeds on the real
\* name or on a name reached from it through the mapping table
RECURSIVE C7_Matches(_, _, _, _)
C7_Matches(ru, name, rn, fuel) ==
    \/ DirectMatch(ru, name, rn)
    \/ /\ fuel > 0
       /\ HasKey(userMap, rn)
       /\ C7_Matches(ru, name, MapGet(userMap, rn), fuel - 1)

C7_Matching ==
    {i \in 1..Len(slackUsers) :
        C7_Matches(trackerUser, slackUsers[i].Name, slackUsers[i].RealName,
                   Cardinality(userMap))}

C7_First == CHOOSE i \in C7_Matching : \A j \in C7_Matching : i <= j

\* C7: when getUser returns, for a ticket without assignee it returns the empty
\* string and has made no remote call, and the ticket's line shows the
\* placeholder; otherwise it returns the mention of the first chat user in list
\* order that is the tracker user, and the assignee's name when there is none
\* (or when a lookup failed).
C7_GetUser ==
    /\ pc = "render" =>
          IF cur.AssignedTo.isNil
          THEN ret = <<>> /\ calls["user"] = 0 /\ calls["list"] = 0
          ELSE IF failed \cap {"user", "list"} # {}
          THEN ret = cur.AssignedTo.Name
          ELSE IF C7_Matching = {}
          THEN ret = cur.AssignedTo.Name
          ELSE ret = <<"<", "@">> \o slackUsers[C7_First].ID \o <<">">>
    /\ \A k \in 1..Len(out \o buf) :
          LET line == (out \o buf)[k]
          IN  (line.kind = "ticket" /\ remoteIssues[line.id].AssignedTo.isNil)
                  => line.user = <<Tantou, Misettei>>

\* two chat users match and the first is returned
C7_Witness ==
    /\ pc = "render"
    /\ ~cur.AssignedTo.isNil
    /\ failed = {}
    /\ Cardinality(C7_Matching) = 2
    /\ ret = <<"<", "@">> \o slackUsers[1].ID \o <<">">>
    /\ slackUsers[1] # slackUsers[2]

\* the remote calls whose failure exec returns
Fatal == {"issues", "auth", "post"}

AssignedLines(text) ==
    {k \in 1..Len(text) :
        text[k].kind = "ticket" /\ ~remoteIssues[text[k].id].AssignedTo.isNil}

\* getUser is past the tracker lookup for the received ticket
LookedUp ==
    /\ pc \in {"listUsers", "match", "isSameUser", "render", "crashed"}
    /\ ~cur.AssignedTo.isNil

FilterIds(b) ==
    LET q == SelectSeq(iss, LAMBDA is : Filter(b, is))
    IN  [k \in 1..Len(q) |-> q[k].ID]

\* the IDs of the ticket lines of a section of a text, in order
LineIds(text, b) ==
    LET q == SelectSeq(text, LAMBDA l : l.kind = "ticket" /\ l.bucket = b)
    IN  [k \in 1..Len(q) |-> q[k].id]

\* the IDs postToSlack has received from a channel, in order
Received(b) ==
    LineIds(out \o buf, b)
        \o (IF pc \in {"getUser", "listUsers", "match", "isSameUser", "render", "crashed"}
               /\ bucket = b
            THEN <<cur.ID>> ELSE <<>>)

IsPrefix(p, q) == Len(p) <= Len(q) /\ SubSeq(q, 1, Len(p)) = p

\* C10: what postToSlack receives from a channel is, in order, the fetched
\* tickets the channel's filter accepts, each once; the number in a section's
\* summary line is the number of the section's ticket lines; and the posted
\* text is the Expired section followed by the DueSoon section.
C10_Order ==
    /\ \A b \in Buckets : IsPrefix(Received(b), FilterIds(b))
    /\ \A k \in 1..Len(out) :
          out[k].kind = "count" =>
              /\ Received(out[k].bucket) = FilterIds(out[k].bucket)
              /\ out[k].n = Len(LineIds(out, out[k].bucket))
    /\ posted # <<>> =>
          LET text == posted[1]
              ne == Len(FilterIds("expired"))
              nn == Len(FilterIds("near"))
          IN  /\ Len(text) = ne + nn + 2
              /\ text[1] = CountLine("expired", ne)
              /\ \A k \in 1..ne :
                    /\ text[1 + k].kind = "ticket"
                    /\ text[1 + k].id = FilterIds("expired")[k]
              /\ text[ne + 2] = CountLine("near", nn)
              /\ \A k \in 1..nn :
                    /\ text[ne + 2 + k].kind = "ticket"
                    /\ text[ne + 2 + k].id = FilterIds("near")[k]

\* a digest with both sections, posted from a list in which the two buckets
\* alternate with a ticket of neither
C10_Witness ==
    /\ posted # <<>>
    /\ Len(FilterIds("expired")) >= 1
    /\ Len(FilterIds("near")) >= 1
    /\ FilterIds("near")[1] < FilterIds("expired")[1]

\* C9: the fan-out never deadlocks and the digest is posted: once the tickets
\* are fetched, whenever no step is possible exec has returned, and unless the
\* auth test or the post failed both collect goroutines have closed their
\* channels and one message has been posted.
C9_NoDeadlock ==
    ("issues" \notin failed /\ ~ENABLED Next) =>
        /\ pc = "done"
        /\ failed \cap {"auth", "post"} = {} => (AllSent /\ Len(posted) = 1)

=============================================================================
